---- MODULE Spec2Model ----
(***************************************************************************)
(* Model of src/index.ts: the NotebookLM MCP server.  Module state is the  *)
(* pair (browser, page); every tool call is an async handler whose awaited *)
(* steps are separate atomic actions, so calls may overlap.                *)
(* Texts are sequences of atoms (characters or literal chunks); a template *)
(* literal is a concatenation and String.prototype.includes is a search    *)
(* for a contiguous sub-sequence.                                          *)
(***************************************************************************)
EXTENDS Integers, Sequences, FiniteSets, TLC

\* ------------------------------------------------------------------ bounds
MaxCalls == 2
MaxButtons == 2
MaxTexts == 2
MaxPad == 1

\* Two call slots: the calls that may be in flight at once.  A slot whose call
\* has ended takes the next request, up to MaxCalls requests in all.
Slots == {1, 2}

\* ------------------------------------------------------------------ values
NoBrowser == 0
NoPage == 0
NullText == <<"<null>">>
NoError == <<>>

APP_HOST == "notebooklm.google.com"
LOGIN_HOST == "accounts.google.com"
APP_URL == <<"https://", APP_HOST>>
GOOGLE_EMAIL == <<"user@example.com">>
GOOGLE_PASSWORD == <<"s3cret">>
NEW_NOTEBOOK == <<"New", " ", "notebook">>

EMAIL_INPUT == "input[type=\"email\"]"
PASSWORD_INPUT == "input[type=\"password\"]"
NEW_BUTTON_SEL == "[aria-label=\"New notebook\"], button[jsname]"
TITLE_INPUT_SEL == "input[placeholder], input[aria-label]"
TITLE_SEL == "[data-testid=\"notebook-title\"], .notebook-title, h3"

ToolNames == {"create_notebook", "list_notebooks", "open_notebooklm"}
RequestNames == ToolNames \cup {"delete_notebook"}
Titles == {<<"My", " ", "Notes">>, <<"Q3">>}

\* URLs the page may show once a navigation to the app root has settled.
URLs ==
  { <<"https://", APP_HOST, "/">>,
    <<"https://", LOGIN_HOST, "/signin">>,
    <<"https://", LOGIN_HOST, "/signin?continue=", "https://", APP_HOST, "/">>,
    <<"https://", APP_HOST, "/", LOGIN_HOST>>,
    <<"chrome-error://chromewebdata/">> }

\* ------------------------------------------------------------------ text
Includes(s, needle) ==
  \E i \in 0..(Len(s) - Len(needle)) : SubSeq(s, i + 1, i + Len(needle)) = needle

\* What String.prototype.trim strips: the ECMAScript WhiteSpace and
\* LineTerminator characters.  A character with no escape in a string here is
\* the atom that spells its code point.
WhiteSpace ==
  {"\t", "U+000B", "\f", " ", "U+00A0", "U+FEFF",
   "U+1680", "U+2000", "U+2001", "U+2002", "U+2003", "U+2004", "U+2005",
   "U+2006", "U+2007", "U+2008", "U+2009", "U+200A", "U+202F", "U+205F", "U+3000"}
LineTerminator == {"\n", "\r", "U+2028", "U+2029"}

IsWhiteSpace(ch) == ch \in WhiteSpace \cup LineTerminator

RECURSIVE TrimStart(_)
TrimStart(s) ==
  IF s # <<>> /\ IsWhiteSpace(Head(s)) THEN TrimStart(Tail(s)) ELSE s

RECURSIVE TrimEnd(_)
TrimEnd(s) ==
  IF s # <<>> /\ IsWhiteSpace(s[Len(s)]) THEN TrimEnd(SubSeq(s, 1, Len(s) - 1)) ELSE s

Trim(s) == TrimEnd(TrimStart(s))

Digit(d) == <<"0", "1", "2", "3", "4", "5", "6", "7", "8", "9">>[d + 1]

RECURSIVE NumberToString(_)
NumberToString(n) ==
  IF n < 10 THEN <<Digit(n)>> ELSE NumberToString(n \div 10) \o <<Digit(n % 10)>>

RECURSIVE Join(_, _)
Join(parts, sep) ==
  IF parts = <<>> THEN <<>>
  ELSE IF Len(parts) = 1 THEN parts[1]
  ELSE parts[1] \o sep \o Join(Tail(parts), sep)

RECURSIVE FilterBoolean(_)
FilterBoolean(xs) ==
  IF xs = <<>> THEN <<>>
  ELSE IF Head(xs) = NullText \/ Head(xs) = <<>> THEN FilterBoolean(Tail(xs))
  ELSE <<Head(xs)>> \o FilterBoolean(Tail(xs))

\* (els) => els.map((el) => el.textContent?.trim()).filter(Boolean)
ScrapeTitles(els) ==
  FilterBoolean([i \in 1..Len(els) |-> IF els[i] = NullText THEN NullText ELSE Trim(els[i])])

\* Numbering that starts at zero.
NumberLineFromZero(n, i) == NumberToString(i - 1) \o <<".", " ">> \o n

\* The message literals of the source are Korean; each is kept as one atom, in
\* brackets, in English.
NumberLine(n, i) == NumberToString(i) \o <<".", " ">> \o n

EMPTY_LIST_MESSAGE == <<"[no notebooks, or the list could not be loaded]">>
LIST_HEADER == <<"[notebook list]:", "\n">>

FormatNotebooks(notebooks) ==
  IF Len(notebooks) = 0 THEN EMPTY_LIST_MESSAGE
  ELSE LIST_HEADER
         \o Join([i \in 1..Len(notebooks) |-> NumberLine(notebooks[i], i)], <<"\n">>)

CreatedMessage(title) == <<"[notebook] \"">> \o title \o <<"\" [created]">>
CreateErrorMessage(e) ==
  <<"[error while creating notebook]: ">> \o e \o <<". [check the NotebookLM page]">>
ListErrorMessage(e) == <<"[error loading list]: ">> \o e
OPENED_MESSAGE == <<"[opened NotebookLM in the browser]">>
UNSUPPORTED_TOOL == <<"Error: ", "[unsupported tool]">>

StepError(step) == <<"Error: ", step>>
NullPageError == <<"TypeError: ", "Cannot read properties of null">>

\* ------------------------------------------------------------------ state
VARIABLES
  browser,     \* module variable browser: NoBrowser or the id of a launched browser
  page,        \* module variable page: NoPage or the id of an opened page
  launches,    \* number of browsers puppeteer.launch has produced
  lastAct,     \* lastAct[pg]: the call slot that made the latest call of a method of
               \* page pg; Len(lastAct) pages have been opened
  siteButtons, \* textContent of the button elements of the site, in document order
  scraped,     \* textContent of the elements the title selector matches on the site
  dispatched,  \* number of CallTool requests received
  cut,         \* the call that made the latest page call had called the page before,
               \* and another call called that page in between
  pc,          \* pc[c]: the awaited statement call c is suspended at; its page
               \* method has been called and has not settled
  tool,        \* request.params.name of call c
  title,       \* request.params.arguments.title of call c
  p,           \* the local p of call c (what initBrowser returned)
  seen,        \* what page.url() answered in loginToGoogle of call c; dropped once
               \* the login form has been submitted and the page has navigated on
  btns,        \* the local buttons of createNotebook: the text of each button
  idx,         \* position of the for-loop over buttons
  log,         \* the page methods call c has called, in order
  returned,    \* which of initBrowser, loginToGoogle have returned in call c
  thrown,      \* the error thrown inside call c, NoError if none
  outcome      \* how call c ended: a response text or a raised error

vars == <<browser, page, launches, lastAct, siteButtons, scraped, dispatched,
          cut, pc, tool,
          title, p, seen, btns, idx, log, returned, thrown, outcome>>

sessionVars == <<browser, page, launches, lastAct>>
loopVars == <<btns, idx>>
requestVars == <<dispatched, tool, title, siteButtons, scraped>>

Pending == [kind |-> "pending", text |-> <<>>]
Returned(text) == [kind |-> "returned", text |-> text]
Raised(e) == [kind |-> "raised", text |-> e]

Entry(op, sel, text, n) == [op |-> op, sel |-> sel, text |-> text, n |-> n]

\* A login sequence that types the secret before submitting the identifier.
LoginStepsSecretFirst ==
  << [pc |-> "login_wait_email", act |-> Entry("waitForSelector", EMAIL_INPUT, <<>>, 0)],
     [pc |-> "login_type_email", act |-> Entry("type", EMAIL_INPUT, GOOGLE_EMAIL, 0)],
     [pc |-> "login_type_password", act |-> Entry("type", PASSWORD_INPUT, GOOGLE_PASSWORD, 0)],
     [pc |-> "login_click_identifier", act |-> Entry("click", "#identifierNext", <<>>, 0)],
     [pc |-> "login_wait_password", act |-> Entry("waitForSelector", PASSWORD_INPUT, <<>>, 0)],
     [pc |-> "login_click_password", act |-> Entry("click", "#passwordNext", <<>>, 0)],
     [pc |-> "login_wait_navigation", act |-> Entry("waitForNavigation", "", <<>>, 0)] >>

\* The statements of loginToGoogle after the skip test, in program order.
LoginSteps ==
  << [pc |-> "login_wait_email", act |-> Entry("waitForSelector", EMAIL_INPUT, <<>>, 0)],
     [pc |-> "login_type_email", act |-> Entry("type", EMAIL_INPUT, GOOGLE_EMAIL, 0)],
     [pc |-> "login_click_identifier", act |-> Entry("click", "#identifierNext", <<>>, 0)],
     [pc |-> "login_wait_password", act |-> Entry("waitForSelector", PASSWORD_INPUT, <<>>, 0)],
     [pc |-> "login_type_password", act |-> Entry("type", PASSWORD_INPUT, GOOGLE_PASSWORD, 0)],
     [pc |-> "login_click_password", act |-> Entry("click", "#passwordNext", <<>>, 0)],
     [pc |-> "login_wait_navigation", act |-> Entry("waitForNavigation", "", <<>>, 0)] >>

\* page.url().includes(app) && !page.url().includes(login)
AlreadyLoggedIn(u) == Includes(u, <<APP_HOST>>) /\ ~Includes(u, <<LOGIN_HOST>>)

\* text && text.includes("New notebook")
IsNewNotebookButton(text) ==
  text # NullText /\ text # <<>> /\ Includes(text, NEW_NOTEBOOK)

\* The statements inside the try blocks of createNotebook and listNotebooks.
CreateTry == {"create_wait", "create_scan", "create_eval", "create_click",
              "create_wait_input", "create_type", "create_enter"}
ListTry == {"list_eval"}

\* An if-chain whose last branch is taken for every other name.
RouteDefaultOpen(name) ==
  IF name = "create_notebook" THEN "createNotebook"
  ELSE IF name = "list_notebooks" THEN "listNotebooks"
  ELSE "openNotebooklm"

\* The if-chain of the CallTool handler.
Route(name) ==
  IF name = "create_notebook" THEN "createNotebook"
  ELSE IF name = "list_notebooks" THEN "listNotebooks"
  ELSE IF name = "open_notebooklm" THEN "openNotebooklm"
  ELSE "throw"

\* Every handler reports its errors as text.
OnThrowReportAll(h, at, e) ==
  IF h = "createNotebook" THEN Returned(CreateErrorMessage(e))
  ELSE IF h = "listNotebooks" THEN Returned(ListErrorMessage(e))
  ELSE Returned(OPENED_MESSAGE)

\* Where an error thrown at statement at of handler h ends up: in the catch
\* clause around the statement, or with the caller of the CallTool handler.
OnThrow(h, at, e) ==
  IF h = "createNotebook" /\ at \in CreateTry THEN Returned(CreateErrorMessage(e))
  ELSE IF h = "listNotebooks" /\ at \in ListTry THEN Returned(ListErrorMessage(e))
  ELSE Raised(e)

\* What the caller of loginToGoogle does once it has returned.
AfterLogin(h) ==
  IF h = "createNotebook" THEN "create_goto"
  ELSE IF h = "listNotebooks" THEN "list_goto"
  ELSE "done"

ButtonTexts == {NullText, <<"Share">>, <<"+", " ">> \o NEW_NOTEBOOK}

RECURSIVE SeqsUpTo(_, _)
SeqsUpTo(S, n) ==
  IF n = 0 THEN {<<>>}
  ELSE LET shorter == SeqsUpTo(S, n - 1)
       IN shorter \cup {Append(s, x) : s \in shorter, x \in S}

ButtonLists == SeqsUpTo(ButtonTexts, MaxButtons)

\* ------------------------------------------------------------------ steps
\* Call c calls method e of page pg, having made the page calls in prior. A
\* page method is called in the step in which the statement before it is done:
\* the handler runs on from a settled await up to its next one.
Issue(c, pg, prior, e) ==
  /\ log' = [log EXCEPT ![c] = Append(prior, e)]
  /\ cut' = (prior # <<>> /\ lastAct[pg] # c)
  /\ lastAct' = [lastAct EXCEPT ![pg] = c]

\* Call c calls page method e and is suspended at the await of statement next.
Awaits(c, next, e) ==
  /\ Issue(c, p[c], log[c], e)
  /\ pc' = [pc EXCEPT ![c] = next]
  /\ UNCHANGED <<outcome, thrown>>

\* Call c is suspended at the await of statement next, which calls no page.
Goes(c, next) ==
  /\ pc' = [pc EXCEPT ![c] = next]
  /\ UNCHANGED <<outcome, thrown, log, lastAct, cut>>

Returns(c, text) ==
  /\ pc' = [pc EXCEPT ![c] = "done"]
  /\ outcome' = [outcome EXCEPT ![c] = Returned(text)]
  /\ UNCHANGED <<thrown, log, lastAct, cut>>

\* The statement call c awaits rejects with e.
Throws(c, e) ==
  /\ pc' = [pc EXCEPT ![c] = "done"]
  /\ outcome' = [outcome EXCEPT ![c] = OnThrow(Route(tool[c]), pc[c], e)]
  /\ thrown' = [thrown EXCEPT ![c] = e]
  /\ UNCHANGED <<log, lastAct, cut>>

\* loginToGoogle returns and its caller goes on: open_notebooklm returns its
\* confirmation, createNotebook and listNotebooks call p.goto(app root).
LoginReturns(c) ==
  /\ returned' = [returned EXCEPT ![c] = @ \cup {"loginToGoogle"}]
  /\ IF Route(tool[c]) = "openNotebooklm"
       THEN Returns(c, OPENED_MESSAGE)
       ELSE Awaits(c, AfterLogin(Route(tool[c])), Entry("goto", "", APP_URL, 0))

\* ------------------------------------------------------------------ actions
\* The SDK invokes the CallTool handler for every request it reads; nothing in
\* the handler waits for an earlier call.
Free(c) == pc[c] \in {"idle", "done"}

\* A handler that takes a request only when no call is in flight.
CanDispatchExclusive(c) ==
  /\ Free(c)
  /\ \A d \in Slots : d < c => ~Free(d)
  /\ \A d \in Slots : d # c => pc[d] \in {"idle", "done", "off"}
  /\ dispatched < MaxCalls

CanDispatch(c) ==
  /\ Free(c)
  /\ \A d \in Slots : d < c => ~Free(d)
  /\ dispatched < MaxCalls

\* CallTool handler, up to its first pending await: the if-chain and, for the
\* three tools, initBrowser up to puppeteer.launch(...) when browser is null;
\* otherwise initBrowser returns page at once and loginToGoogle calls
\* page.goto(app root), which throws a TypeError when page is still null.
Dispatch(c) ==
  /\ CanDispatch(c)
  /\ \E n \in RequestNames :
     \E t \in (IF n = "create_notebook" THEN Titles ELSE {<<>>}) :
       /\ tool' = [tool EXCEPT ![c] = n]
       /\ title' = [title EXCEPT ![c] = t]
       /\ dispatched' = dispatched + 1
       /\ seen' = [seen EXCEPT ![c] = <<>>]
       /\ btns' = [btns EXCEPT ![c] = <<>>]
       /\ idx' = [idx EXCEPT ![c] = 0]
       /\ IF Route(n) = "throw"
            THEN /\ pc' = [pc EXCEPT ![c] = "done"]
                 /\ p' = [p EXCEPT ![c] = NoPage]
                 /\ returned' = [returned EXCEPT ![c] = {}]
                 /\ thrown' = [thrown EXCEPT ![c] = UNSUPPORTED_TOOL]
                 /\ outcome' = [outcome EXCEPT ![c] = Raised(UNSUPPORTED_TOOL)]
                 /\ log' = [log EXCEPT ![c] = <<>>]
                 /\ UNCHANGED <<lastAct, cut>>
            ELSE IF browser = NoBrowser
            THEN /\ pc' = [pc EXCEPT ![c] = "launch"]
                 /\ p' = [p EXCEPT ![c] = NoPage]
                 /\ returned' = [returned EXCEPT ![c] = {}]
                 /\ thrown' = [thrown EXCEPT ![c] = NoError]
                 /\ outcome' = [outcome EXCEPT ![c] = Pending]
                 /\ log' = [log EXCEPT ![c] = <<>>]
                 /\ UNCHANGED <<lastAct, cut>>
            ELSE IF page = NoPage
            THEN /\ pc' = [pc EXCEPT ![c] = "done"]
                 /\ p' = [p EXCEPT ![c] = NoPage]
                 /\ returned' = [returned EXCEPT ![c] = {"initBrowser"}]
                 /\ thrown' = [thrown EXCEPT ![c] = NullPageError]
                 /\ outcome' = [outcome EXCEPT ![c] =
                                  OnThrow(Route(n), "login_goto", NullPageError)]
                 /\ log' = [log EXCEPT ![c] = <<>>]
                 /\ UNCHANGED <<lastAct, cut>>
            ELSE /\ pc' = [pc EXCEPT ![c] = "login_goto"]
                 /\ p' = [p EXCEPT ![c] = page]
                 /\ returned' = [returned EXCEPT ![c] = {"initBrowser"}]
                 /\ thrown' = [thrown EXCEPT ![c] = NoError]
                 /\ outcome' = [outcome EXCEPT ![c] = Pending]
                 /\ Issue(c, page, <<>>, Entry("goto", "", APP_URL, 0))
  /\ UNCHANGED <<browser, page, launches, siteButtons, scraped>>

\* browser = await puppeteer.launch(...) settles; browser.newPage() is called.
initBrowserLaunch(c) ==
  /\ pc[c] = "launch"
  /\ \/ /\ launches' = launches + 1
        /\ browser' = launches + 1
        /\ Goes(c, "newPage")
     \/ /\ Throws(c, StepError("launch"))
        /\ UNCHANGED <<browser, launches>>
  /\ UNCHANGED <<page, requestVars, p, seen, loopVars, returned>>

\* page = await browser.newPage() settles; return page!; loginToGoogle calls
\* page.goto(app root) on the page just opened.
initBrowserNewPage(c) ==
  /\ pc[c] = "newPage"
  /\ \/ /\ lastAct' = Append(lastAct, c)
        /\ page' = Len(lastAct) + 1
        /\ p' = [p EXCEPT ![c] = Len(lastAct) + 1]
        /\ returned' = [returned EXCEPT ![c] = {"initBrowser"}]
        /\ log' = [log EXCEPT ![c] = Append(@, Entry("goto", "", APP_URL, 0))]
        /\ cut' = FALSE
        /\ pc' = [pc EXCEPT ![c] = "login_goto"]
        /\ UNCHANGED <<outcome, thrown>>
     \/ /\ Throws(c, StepError("newPage"))
        /\ UNCHANGED <<page, p, returned>>
  /\ UNCHANGED <<browser, launches, requestVars, seen, loopVars>>

\* await page.goto(app root) settles; the skip test on page.url(); then either
\* the return to the caller or the first statement of the login form.
loginGoto(c) ==
  /\ pc[c] = "login_goto"
  /\ \/ /\ Throws(c, StepError("goto"))
        /\ UNCHANGED <<seen, returned>>
     \/ \E u \in URLs :
          /\ seen' = [seen EXCEPT ![c] = u]
          /\ IF AlreadyLoggedIn(u)
               THEN LoginReturns(c)
               ELSE /\ Awaits(c, LoginSteps[1].pc, LoginSteps[1].act)
                    /\ UNCHANGED returned
  /\ UNCHANGED <<browser, page, launches, requestVars, p, loopVars>>

\* One awaited statement of the login form sequence settles; the next one is
\* called, or loginToGoogle returns.
loginStep(c) ==
  /\ \E i \in 1..Len(LoginSteps) :
       /\ pc[c] = LoginSteps[i].pc
       /\ \/ /\ Throws(c, StepError(LoginSteps[i].act.op))
             /\ UNCHANGED <<returned, seen>>
          \/ IF i = Len(LoginSteps)
               THEN /\ LoginReturns(c)
                    /\ seen' = [seen EXCEPT ![c] = <<>>]
               ELSE /\ Awaits(c, LoginSteps[i + 1].pc, LoginSteps[i + 1].act)
                    /\ UNCHANGED <<returned, seen>>
  /\ UNCHANGED <<browser, page, launches, requestVars, p, loopVars>>

\* await p.goto(app root) of createNotebook, before its try block, settles;
\* p.waitForSelector(new-notebook affordance) is called.
createGoto(c) ==
  /\ pc[c] = "create_goto"
  /\ \/ Throws(c, StepError("goto"))
     \/ Awaits(c, "create_wait", Entry("waitForSelector", NEW_BUTTON_SEL, <<>>, 0))
  /\ UNCHANGED <<browser, page, launches, requestVars, p, seen, loopVars, returned>>

\* await p.waitForSelector(new-notebook affordance) settles; p.$$("button")
createWait(c) ==
  /\ pc[c] = "create_wait"
  /\ \/ Throws(c, StepError("waitForSelector"))
     \/ Awaits(c, "create_scan", Entry("$$", "button", <<>>, 0))
  /\ UNCHANGED <<browser, page, launches, requestVars, p, seen, loopVars, returned>>

\* const buttons = await p.$$("button") settles; the loop starts at the first
\* button, or is over at once and p.waitForSelector(title input) is called.
createScan(c) ==
  /\ pc[c] = "create_scan"
  /\ \/ /\ Throws(c, StepError("$$"))
        /\ UNCHANGED loopVars
     \/ /\ btns' = [btns EXCEPT ![c] = siteButtons]
        /\ idx' = [idx EXCEPT ![c] = 1]
        /\ IF siteButtons = <<>>
             THEN Awaits(c, "create_wait_input",
                         Entry("waitForSelector", TITLE_INPUT_SEL, <<>>, 0))
             ELSE Awaits(c, "create_eval", Entry("evaluate", "button", <<>>, 1))
  /\ UNCHANGED <<browser, page, launches, requestVars, p, seen, returned>>

\* const text = await btn.evaluate(el => el.textContent) settles; the if and
\* the loop: btn.click(), the next button, or the statement after the loop.
createEval(c) ==
  /\ pc[c] = "create_eval"
  /\ \/ /\ Throws(c, StepError("evaluate"))
        /\ UNCHANGED idx
     \/ IF IsNewNotebookButton(btns[c][idx[c]])
          THEN /\ Awaits(c, "create_click", Entry("btn.click", "button", <<>>, idx[c]))
               /\ UNCHANGED idx
          ELSE /\ idx' = [idx EXCEPT ![c] = @ + 1]
               /\ IF idx[c] = Len(btns[c])
                    THEN Awaits(c, "create_wait_input",
                                Entry("waitForSelector", TITLE_INPUT_SEL, <<>>, 0))
                    ELSE Awaits(c, "create_eval",
                                Entry("evaluate", "button", <<>>, idx[c] + 1))
  /\ UNCHANGED <<browser, page, launches, requestVars, p, seen, btns, returned>>

\* await btn.click() settles; break; p.waitForSelector(title input)
createClick(c) ==
  /\ pc[c] = "create_click"
  /\ \/ Throws(c, StepError("btn.click"))
     \/ Awaits(c, "create_wait_input", Entry("waitForSelector", TITLE_INPUT_SEL, <<>>, 0))
  /\ UNCHANGED <<browser, page, launches, requestVars, p, seen, loopVars, returned>>

\* await p.waitForSelector(title input) settles; p.keyboard.type(title)
createWaitInput(c) ==
  /\ pc[c] = "create_wait_input"
  /\ \/ Throws(c, StepError("waitForSelector"))
     \/ Awaits(c, "create_type", Entry("keyboard.type", "", title[c], 0))
  /\ UNCHANGED <<browser, page, launches, requestVars, p, seen, loopVars, returned>>

\* await p.keyboard.type(title) settles; p.keyboard.press("Enter")
createType(c) ==
  /\ pc[c] = "create_type"
  /\ \/ Throws(c, StepError("keyboard.type"))
     \/ Awaits(c, "create_enter", Entry("keyboard.press", "", <<"Enter">>, 0))
  /\ UNCHANGED <<browser, page, launches, requestVars, p, seen, loopVars, returned>>

\* await p.keyboard.press("Enter") settles; return the success message
createEnter(c) ==
  /\ pc[c] = "create_enter"
  /\ \/ Throws(c, StepError("keyboard.press"))
     \/ Returns(c, CreatedMessage(title[c]))
  /\ UNCHANGED <<browser, page, launches, requestVars, p, seen, loopVars, returned>>

\* await p.goto(app root) of listNotebooks, before its try block, settles;
\* p.$$eval(title elements, ...) is called.
listGoto(c) ==
  /\ pc[c] = "list_goto"
  /\ \/ Throws(c, StepError("goto"))
     \/ Awaits(c, "list_eval", Entry("$$eval", TITLE_SEL, <<>>, 0))
  /\ UNCHANGED <<browser, page, launches, requestVars, p, seen, loopVars, returned>>

\* const notebooks = await p.$$eval(...) settles; the two returns
listEval(c) ==
  /\ pc[c] = "list_eval"
  /\ \/ Throws(c, StepError("$$eval"))
     \/ Returns(c, FormatNotebooks(ScrapeTitles(scraped)))
  /\ UNCHANGED <<browser, page, launches, requestVars, p, seen, loopVars, returned>>

Step(c) ==
  \/ initBrowserLaunch(c)
  \/ initBrowserNewPage(c)
  \/ loginGoto(c)
  \/ loginStep(c)
  \/ createGoto(c)
  \/ createWait(c)
  \/ createScan(c)
  \/ createEval(c)
  \/ createClick(c)
  \/ createWaitInput(c)
  \/ createType(c)
  \/ createEnter(c)
  \/ listGoto(c)
  \/ listEval(c)

\* ------------------------------------------------------------------ specifications
HomeButtons == << <<"Share">>, <<"+", " ">> \o NEW_NOTEBOOK >>
HomeTitles == << <<"A">>, <<" ", "B", "\n">> >>

InitSession ==
  /\ browser = NoBrowser
  /\ page = NoPage
  /\ launches = 0
  /\ lastAct = <<>>
  /\ dispatched = 0

\* No call yet; the slots in open take requests, the others stay unused.
InitCalls(open) ==
  /\ pc = [c \in Slots |-> IF c \in open THEN "idle" ELSE "off"]
  /\ cut = FALSE
  /\ tool = [c \in Slots |-> ""]
  /\ title = [c \in Slots |-> <<>>]
  /\ p = [c \in Slots |-> NoPage]
  /\ seen = [c \in Slots |-> <<>>]
  /\ btns = [c \in Slots |-> <<>>]
  /\ idx = [c \in Slots |-> 0]
  /\ log = [c \in Slots |-> <<>>]
  /\ returned = [c \in Slots |-> {}]
  /\ thrown = [c \in Slots |-> NoError]
  /\ outcome = [c \in Slots |-> Pending]

\* Calls may overlap; the site shows its home page.
Init ==
  /\ InitSession
  /\ siteButtons = HomeButtons
  /\ scraped = HomeTitles
  /\ InitCalls(Slots)

Next == \E c \in Slots : Dispatch(c) \/ Step(c)

Spec == Init /\ [][Next]_vars

\* A client that awaits each response before its next request; the site shows
\* any list of buttons.
InitSite ==
  /\ InitSession
  /\ siteButtons \in ButtonLists
  /\ scraped = <<>>
  /\ InitCalls({1})

SpecSite == InitSite /\ [][Next]_vars

\* The texts an element may carry: nothing, a word or two lines, with runs of
\* blanks or of line breaks around it, MaxPad characters of them in all.
RECURSIVE Repeat(_, _)
Repeat(ch, k) == IF k = 0 THEN <<>> ELSE <<ch>> \o Repeat(ch, k - 1)

Pads == {Repeat(ch, k) : ch \in {" ", "\n", "\r"}, k \in 0..MaxPad}
Cores == {<<>>, <<"a">>, <<"a", "\n", "b">>}
PadPairs == {lr \in Pads \X Pads : Len(lr[1]) + Len(lr[2]) <= MaxPad}
ElementTexts == {lr[1] \o core \o lr[2] : lr \in PadPairs, core \in Cores} \cup {NullText}
TitleLists(n) == SeqsUpTo(ElementTexts, n)

\* A list_notebooks call that found the session logged in and has called
\* p.goto(app root), on a site with any list of title elements.
InitList ==
  /\ browser = 1
  /\ page = 1
  /\ launches = 1
  /\ lastAct = <<1>>
  /\ dispatched = 1
  /\ siteButtons = <<>>
  /\ scraped \in TitleLists(MaxTexts)
  /\ cut = FALSE
  /\ pc = [c \in Slots |-> IF c = 1 THEN "list_goto" ELSE "off"]
  /\ tool = [c \in Slots |-> IF c = 1 THEN "list_notebooks" ELSE ""]
  /\ title = [c \in Slots |-> <<>>]
  /\ p = [c \in Slots |-> IF c = 1 THEN 1 ELSE NoPage]
  /\ seen = [c \in Slots |-> IF c = 1 THEN <<"https://", APP_HOST, "/">> ELSE <<>>]
  /\ btns = [c \in Slots |-> <<>>]
  /\ idx = [c \in Slots |-> 0]
  /\ log = [c \in Slots |-> IF c = 1
                               THEN <<Entry("goto", "", APP_URL, 0),
                                      Entry("goto", "", APP_URL, 0)>>
                               ELSE <<>>]
  /\ returned = [c \in Slots |-> IF c = 1 THEN {"initBrowser", "loginToGoogle"} ELSE {}]
  /\ thrown = [c \in Slots |-> NoError]
  /\ outcome = [c \in Slots |-> Pending]

NextList == \E c \in Slots : listGoto(c) \/ listEval(c)

SpecList == InitList /\ [][NextList]_vars

\* ------------------------------------------------------------------ properties
Last(s) == s[Len(s)]
InFlight(c) == pc[c] \notin {"idle", "done", "off"}
Called(c) == tool[c] # ""

\* C1: in create_notebook and list_notebooks an error thrown by any step ends
\* the call with a returned status text that embeds the error text; it is
\* never raised out of the handler.
CreateAndListNeverRaise ==
  \A c \in Slots :
    (tool[c] \in {"create_notebook", "list_notebooks"} /\ thrown[c] # NoError)
      => /\ outcome[c].kind = "returned"
         /\ Includes(outcome[c].text, thrown[c])

\* C2: the browser has been launched at most once and at most one page has
\* been opened.
AtMostOneBrowserAndPage == launches <= 1 /\ Len(lastAct) <= 1

\* C3: every initBrowser call that has returned has returned the same page
\* handle, and never an unset one.
InitBrowserReturnsOnePage ==
  \A c, d \in Slots :
    ("initBrowser" \in returned[c] /\ "initBrowser" \in returned[d])
      => p[c] # NoPage /\ p[c] = p[d]

\* C7: a request whose name is none of the three tools ends with a raised
\* error at once and leaves the session as it was: no launch, no page, no
\* page call by any call.
UnknownToolRaisesOnly ==
  [][\A c \in Slots :
       (/\ dispatched' # dispatched
        /\ CanDispatch(c)
        /\ tool'[c] \notin ToolNames)
         => /\ outcome'[c].kind = "raised"
            /\ pc'[c] = "done"
            /\ log'[c] = <<>>
            /\ \A d \in Slots \ {c} : log'[d] = log[d]
            /\ returned'[c] = {}
            /\ UNCHANGED <<browser, page, launches, lastAct>>]_vars

UnknownToolRaised ==
  \E c, d \in Slots :
    /\ Called(c) /\ tool[c] \notin ToolNames
    /\ outcome[c].kind = "raised"
    /\ InFlight(d) /\ browser # NoBrowser

\* C8: an open_notebooklm call in which session creation or an authentication
\* step fails ends with that error raised; the confirmation text is returned
\* only after initBrowser and loginToGoogle have both returned in that call.
OpenNotebooklmPropagates ==
  \A c \in Slots :
    tool[c] = "open_notebooklm"
      => /\ thrown[c] # NoError => outcome[c] = Raised(thrown[c])
         /\ outcome[c].kind = "returned"
              => /\ outcome[c].text = OPENED_MESSAGE
                 /\ returned[c] = {"initBrowser", "loginToGoogle"}
                 /\ thrown[c] = NoError
         /\ pc[c] = "done" => outcome[c] # Pending

OpenNotebooklmLoginFailed ==
  \E c \in Slots :
    /\ tool[c] = "open_notebooklm"
    /\ "initBrowser" \in returned[c]
    /\ thrown[c] = StepError("waitForSelector")
    /\ outcome[c].kind = "raised"

\* C10: tool calls are not serialized: while a call is suspended at an awaited
\* step a further request is taken, and every suspended call can take its
\* next step whatever the other calls are doing.
CallsNotSerialized ==
  /\ (dispatched < MaxCalls /\ \E c \in Slots : Free(c))
       => \E c \in Slots : ENABLED Dispatch(c)
  /\ \A c \in Slots : InFlight(c) => ENABLED Step(c)

\* A call clicked the button, another call then navigated the same page, and
\* the first call went on to wait for the title input of the page it had left.
PageActionsInterleaved ==
  \E c, d \in Slots :
    /\ c # d /\ p[c] = p[d] /\ p[c] # NoPage
    /\ InFlight(c) /\ InFlight(d)
    /\ cut
    /\ Len(log[c]) >= 2
    /\ log[c][Len(log[c]) - 1].op = "btn.click"
    /\ Last(log[c]).sel = TITLE_INPUT_SEL
    /\ log[d] # <<>> /\ Last(log[d]).op = "goto"
    /\ lastAct[p[c]] = c

\* The login form sequence as the documentation states it: email wait, account
\* identifier, identifier next, password wait, secret, password next, settle.
DocumentedLogin ==
  << [op |-> "waitForSelector", sel |-> EMAIL_INPUT, text |-> <<>>, n |-> 0],
     [op |-> "type", sel |-> EMAIL_INPUT, text |-> GOOGLE_EMAIL, n |-> 0],
     [op |-> "click", sel |-> "#identifierNext", text |-> <<>>, n |-> 0],
     [op |-> "waitForSelector", sel |-> PASSWORD_INPUT, text |-> <<>>, n |-> 0],
     [op |-> "type", sel |-> PASSWORD_INPUT, text |-> GOOGLE_PASSWORD, n |-> 0],
     [op |-> "click", sel |-> "#passwordNext", text |-> <<>>, n |-> 0],
     [op |-> "waitForNavigation", sel |-> "", text |-> <<>>, n |-> 0] >>

IsFormAction(e) ==
  \/ e.sel \in {EMAIL_INPUT, PASSWORD_INPUT, "#identifierNext", "#passwordNext"}
  \/ e.op = "waitForNavigation"

FormActions(c) == SelectSeq(log[c], IsFormAction)

\* The domain a URL is on is its host, the part after the scheme; what its
\* path or query mentions does not count.
UrlHost(u) == IF Len(u) >= 2 /\ u[1] = "https://" THEN u[2] ELSE ""
OnAppDomain(u) == UrlHost(u) = APP_HOST
OnLoginDomain(u) == UrlHost(u) = LOGIN_HOST

\* C4: when the URL after the first navigation is on the application's domain
\* and not on the login domain, loginToGoogle returns without any wait, type,
\* click or navigation wait; when it is on the login domain, also with the
\* application's domain inside it, the skip is not taken and the form sequence
\* starts.
SkipOnlyWhenLoggedIn ==
  \A c \in Slots :
    seen[c] # <<>>
      => /\ (OnAppDomain(seen[c]) /\ ~OnLoginDomain(seen[c]))
              => /\ "loginToGoogle" \in returned[c]
                 /\ FormActions(c) = <<>>
                 /\ Len(log[c]) >= 2 => log[c][2].op = "goto"
         /\ OnLoginDomain(seen[c])
              => /\ "loginToGoogle" \notin returned[c]
                 /\ Len(log[c]) >= 2
                 /\ log[c][2] = DocumentedLogin[1]

\* C5: without the skip the page calls of loginToGoogle are the documented
\* seven, in that order, none repeated, directly after the navigation; the
\* function returns only after all seven, and an error at a step ends the
\* call there, that step being the last page call it made.
LoginInDocumentedOrder ==
  \A c \in Slots :
    LET form == FormActions(c) IN
      /\ Len(form) <= Len(DocumentedLogin)
      /\ form = SubSeq(DocumentedLogin, 1, Len(form))
      /\ form # <<>> => SubSeq(log[c], 2, Len(form) + 1) = form
      /\ ("loginToGoogle" \in returned[c] /\ form # <<>>) => form = DocumentedLogin
      /\ (pc[c] = "done" /\ thrown[c] = NoError /\ form # <<>>) => form = DocumentedLogin
      /\ thrown[c] # NoError => pc[c] = "done"
      /\ (thrown[c] # NoError /\ form # <<>> /\ "loginToGoogle" \notin returned[c])
           => /\ Last(log[c]) = Last(form)
              /\ thrown[c] = StepError(Last(form).op)

LoginFormCompleted ==
  \E c \in Slots :
    /\ FormActions(c) = DocumentedLogin
    /\ "loginToGoogle" \in returned[c]
    /\ tool[c] = "list_notebooks"
    /\ pc[c] = "list_goto"

MatchingButtons(c) ==
  {i \in 1..Len(btns[c]) : btns[c][i] # NullText /\ Includes(btns[c][i], NEW_NOTEBOOK)}

Clicks(c) == {i \in 1..Len(log[c]) : log[c][i].op = "btn.click"}

\* C9: a createNotebook call that returned the success message has clicked
\* exactly one button, the first scanned button whose text contains the
\* label, before it typed the title.
SuccessImpliesButtonClicked ==
  \A c \in Slots :
    (tool[c] = "create_notebook" /\ outcome[c] = Returned(CreatedMessage(title[c])))
      => /\ MatchingButtons(c) # {}
         /\ \E i \in 1..Len(log[c]) :
              /\ Clicks(c) = {i}
              /\ \A j \in MatchingButtons(c) : log[c][i].n <= j
              /\ log[c][i].n \in MatchingButtons(c)
              /\ \E k \in (i + 1)..Len(log[c]) :
                   /\ log[c][k].op = "keyboard.type"
                   /\ log[c][k].text = title[c]

\* What the list is documented to show: the trimmed text of every element
\* whose text is not blank, in document order.
Blanks ==
  {" ", "\t", "\n", "\r", "\f", "U+000B", "U+00A0", "U+FEFF", "U+2028", "U+2029",
   "U+1680", "U+202F", "U+205F", "U+3000"}
    \cup {"U+2000", "U+2001", "U+2002", "U+2003", "U+2004", "U+2005", "U+2006",
          "U+2007", "U+2008", "U+2009", "U+200A"}
Blank(s) == \A i \in 1..Len(s) : s[i] \in Blanks
Inked(s) == {i \in 1..Len(s) : s[i] \notin Blanks}
Trimmed(s) ==
  LET lo == CHOOSE i \in Inked(s) : \A j \in Inked(s) : i <= j
      hi == CHOOSE i \in Inked(s) : \A j \in Inked(s) : j <= i
  IN SubSeq(s, lo, hi)
Shown == {i \in 1..Len(scraped) : scraped[i] # NullText /\ ~Blank(scraped[i])}
KthShown(k) == CHOOSE i \in Shown : Cardinality({j \in Shown : j <= i}) = k
ShownTitles == [k \in 1..Cardinality(Shown) |-> Trimmed(scraped[KthShown(k)])]

Decimal(k) ==
  LET d == <<"0", "1", "2", "3", "4", "5", "6", "7", "8", "9">>
  IN IF k < 10 THEN <<d[k + 1]>> ELSE <<d[(k \div 10) + 1], d[(k % 10) + 1]>>
Numbered(n, k) == Decimal(k) \o <<".", " ">> \o n[k]

RECURSIVE SplitLines(_)
SplitLines(s) ==
  IF \A i \in 1..Len(s) : s[i] # "\n" THEN <<s>>
  ELSE LET i == CHOOSE i \in 1..Len(s) : s[i] = "\n" /\ \A j \in 1..(i - 1) : s[j] # "\n"
       IN <<SubSeq(s, 1, i - 1)>> \o SplitLines(SubSeq(s, i + 1, Len(s)))

RECURSIVE NewlineJoined(_, _)
NewlineJoined(n, k) ==
  IF k > Len(n) THEN <<>>
  ELSE (IF k = 1 THEN <<>> ELSE <<"\n">>) \o Numbered(n, k) \o NewlineJoined(n, k + 1)

ListReturned(c) ==
  tool[c] = "list_notebooks" /\ outcome[c].kind = "returned" /\ thrown[c] = NoError

OnePerLine(n, body) ==
  LET lines == SplitLines(body)
  IN /\ Len(lines) = Len(n)
     /\ \A k \in 1..Len(n) : lines[k] = Numbered(n, k)

\* C6 as stated: the empty-state message iff no text is left after trimming,
\* otherwise the header and then one line per text, the k-th line being the
\* k-th text prefixed with its number.
ListOneTitlePerLine ==
  \A c \in Slots :
    ListReturned(c)
      => LET n == ShownTitles
             text == outcome[c].text
         IN /\ text = EMPTY_LIST_MESSAGE <=> n = <<>>
            /\ n # <<>>
                 => /\ Len(text) > 2
                    /\ SubSeq(text, 1, 2) = LIST_HEADER
                    /\ OnePerLine(n, SubSeq(text, 3, Len(text)))

\* C6 as amended: the empty-state message iff no text is left after trimming,
\* otherwise the header and then the numbered texts joined by line breaks;
\* they are one per line when no text has a line break inside it.
ListNumberedAndJoined ==
  \A c \in Slots :
    ListReturned(c)
      => LET n == ShownTitles
             text == outcome[c].text
         IN /\ text = EMPTY_LIST_MESSAGE <=> n = <<>>
            /\ n # <<>>
                 => /\ text = LIST_HEADER \o NewlineJoined(n, 1)
                    /\ (\A k \in 1..Len(n) : \A i \in 1..Len(n[k]) : n[k][i] # "\n")
                         => OnePerLine(n, SubSeq(text, 3, Len(text)))

ListOfTwoReturned ==
  \E c \in Slots :
    /\ ListReturned(c)
    /\ Len(ShownTitles) = 2
    /\ scraped[1] # ShownTitles[1]
    /\ \A k \in 1..2 : \A i \in 1..Len(ShownTitles[k]) : ShownTitles[k][i] # "\n"

====
